---- MODULE Spec2Model ----
(***************************************************************************)
(* The SAGE binary galaxy-catalog reader of src/tests/sagediff.py          *)
(* (class sageResults): read_header and read_tree over a catalog file,     *)
(* and the comparator compare_catalogs over two readers, with the numpy    *)
(* calls (np.fromfile, cumsum, slice assignment, int32 arithmetic,         *)
(* np.argsort, np.allclose) modelled by what they do.                      *)
(***************************************************************************)
EXTENDS Integers, Sequences, FiniteSets, TLC

\* ------------------------------------------------------------------------
\* Bounds of the model
\* ------------------------------------------------------------------------
MaxTrees == 3

MaxCount == 1

\* trees of the catalog that two readers share
MaxTreesTwo == 1

\* explicit read_header calls made on one reader
MaxHeaderReads == 2

\* trees, and galaxies in all, of the catalogs that are compared
MaxTreesCmp == 2

MaxGalaxiesCmp == 2

\* ------------------------------------------------------------------------
\* Small helpers
\* ------------------------------------------------------------------------
Min(a, b) == IF a < b THEN a ELSE b

RECURSIVE SumTo(_, _)
\* s[1] + ... + s[n]
SumTo(s, n) == IF n <= 0 THEN 0 ELSE s[n] + SumTo(s, n - 1)

Sum(s) == SumTo(s, Len(s))

\* Python's None for the instance attributes that start as None; a set
\* attribute a is kept as <<a>>.
None == <<>>

Some(x) == <<x>>

Val(o) == o[1]

\* numpy int32 arithmetic wraps modulo 2^32.  An int32 a is handled as
\* Hi16(a) * 2^16 + Lo16(a), so that no intermediate value leaves the
\* 32-bit range.
Half == 256 * 256

Lo16(a) == a % Half

Hi16(a) == (a - Lo16(a)) \div Half

\* wrap into the signed 16-bit range
Wrap16(x) == ((x + (Half \div 2)) % Half) - (Half \div 2)

\* int32 a + int32 b, as int32
AddWrap32(a, b) ==
    LET lo == Lo16(a) + Lo16(b)
    IN  Wrap16(Hi16(a) + Hi16(b) + (lo \div Half)) * Half + (lo % Half)

\* int32 a * b for a small non-negative b, as int32
MulWrap32(a, b) ==
    LET lo == Lo16(a) * b
    IN  Wrap16(Hi16(a) * b + (lo \div Half)) * Half + (lo % Half)

\* ------------------------------------------------------------------------
\* Record layout: Galdesc_full with align=True
\* ------------------------------------------------------------------------
\* each field as <<scalar width in bytes, number of scalars>>
i4 == <<4, 1>>

i8 == <<8, 1>>

f4 == <<4, 1>>

f4x3 == <<4, 3>>

Galdesc_full ==
    << i4, i4, i8, i8, i4, i4, i8, i4, i4, i4,          \* SnapNum .. mergeIntoSnapNum
       f4, f4x3, f4x3, f4x3, i4,                        \* dT, Pos, Vel, Spin, Len
       f4, f4, f4, f4, f4, f4,                          \* Mvir .. VelDisp
       f4, f4, f4, f4, f4, f4, f4,                      \* ColdGas .. IntraClusterStars
       f4, f4, f4, f4, f4, f4,                          \* MetalsColdGas .. MetalsIntraClusterStars
       f4, f4, f4, f4,                                  \* SfrDisk .. SfrBulgeZ
       f4, f4, f4,                                      \* DiskRadius, Cooling, Heating
       f4, f4, f4, f4,                                  \* QuasarModeBHaccretionMass .. OutflowRate
       f4, f4, f4 >>                                    \* infallMvir .. infallVmax

\* AlignUp for a packed layout: nothing is ever rounded
AlignNone(x, a) == x

\* round x up to a multiple of a
AlignUp(x, a) == ((x + a - 1) \div a) * a

RECURSIVE LayOut(_, _, _, _)
\* byte offset just past field j when the fields i..j are laid out in order
\* from byte s on, each at a multiple of its scalar width.  The run is laid
\* out half by half; the test on `a` has the first half worked out before
\* the second is begun, which keeps the evaluation shallow.
LayOut(desc, i, j, s) ==
    IF i > j THEN s
    ELSE IF i = j THEN AlignUp(s, desc[i][1]) + desc[i][1] * desc[i][2]
    ELSE LET m == (i + j) \div 2
             a == LayOut(desc, i, m, s)
         IN  IF a < s THEN a ELSE LayOut(desc, m + 1, j, a)

\* byte offset just past field k when the fields are laid out in order
EndOfField(desc, k) == LayOut(desc, 1, k, 0)

\* byte offset of field k
FieldOffset(desc, k) == AlignUp(EndOfField(desc, k - 1), desc[k][1])

RECURSIVE MaxWidth(_, _)
\* the widest scalar among the first k fields
MaxWidth(desc, k) ==
    IF k = 0 THEN 1
    ELSE LET m == MaxWidth(desc, k - 1)
         IN  IF desc[k][1] > m THEN desc[k][1] ELSE m

\* self.dtype.itemsize: the aligned struct size
itemsize ==
    AlignUp(EndOfField(Galdesc_full, Len(Galdesc_full)),
            MaxWidth(Galdesc_full, Len(Galdesc_full)))

\* the bytes the fields take without the padding after the last one
PackedSize == EndOfField(Galdesc_full, Len(Galdesc_full))

\* every field is a run of 4- or 8-byte scalars and starts at the first
\* multiple of its scalar width at or after the end of the field before it
FieldsAligned ==
    \A k \in 1..Len(Galdesc_full) :
        /\ Galdesc_full[k][1] \in {4, 8}
        /\ FieldOffset(Galdesc_full, k) % Galdesc_full[k][1] = 0
        /\ FieldOffset(Galdesc_full, k) - EndOfField(Galdesc_full, k - 1)
              \in 0..(Galdesc_full[k][1] - 1)
        /\ EndOfField(Galdesc_full, k) =
              FieldOffset(Galdesc_full, k) + Galdesc_full[k][1] * Galdesc_full[k][2]

\* np.int32 item size in bytes
Int32Size == 4

\* ------------------------------------------------------------------------
\* State
\* ------------------------------------------------------------------------
VARIABLES
    disk,      \* path -> catalog file (read-only): [words, flen, fill]
    rd,        \* reader -> the sageResults instance attributes
    pos,       \* open file description -> its read position in bytes
    hdrCalls,  \* reader -> number of read_header calls made on it
    seqNext,   \* reader -> k if the header was read once from byte 0 and then
               \*   trees 0..k-1 were requested in index order, else -1
    ret,       \* the last call: who, what, its outcome and the bytes it consumed
    recs,      \* path -> the galaxy records stored in the file, in file order
               \*   (tracked for the catalogs that are compared)
    tie,       \* the order in which this build's np.argsort leaves equal keys
    cmp,       \* what the compare_catalogs call reported and read
    gal        \* the local variables of a read_galaxies call (sage-plot.py)

vars == <<disk, rd, pos, hdrCalls, seqNext, ret, recs, tie, cmp, gal>>

\* ------------------------------------------------------------------------
\* Catalog files
\* ------------------------------------------------------------------------
\* A file is `flen` bytes.  Its leading int32 words are `words`; every whole
\* int32 word after them (record data) reads as `fill`.
WordAt(f, k) == IF k < Len(f.words) THEN f.words[k + 1] ELSE f.fill

\* ------------------------------------------------------------------------
\* np.fromfile(fp, dtype, count) on a stream at byte p
\* ------------------------------------------------------------------------
\* whole items left in the file from byte p
Avail(f, p, size) == IF p >= f.flen THEN 0 ELSE (f.flen - p) \div size

\* number of items returned: a negative count asks for all that is left, a
\* short file gives fewer items than asked and raises nothing
FromFileCount(f, p, size, count) ==
    IF count < 0 THEN Avail(f, p, size) ELSE Min(count, Avail(f, p, size))

\* FromFilePos with the position numpy reached on its duplicate of the
\* handle never carried back to the stream
FromFilePosNotSynced(f, p, size, count) == p

\* stream position afterwards; the bytes of a partial last item are consumed
FromFilePos(f, p, size, count) ==
    IF count < 0 THEN p + Avail(f, p, size) * size
    ELSE Min(p + count * size, IF p > f.flen THEN p ELSE f.flen)

\* ReadInt32s handing the values back last one first
ReadInt32sReversed(f, p, n) ==
    [i \in 1..n |-> WordAt(f, (p \div Int32Size) + n - i)]

\* the n int32 values stored from byte p on
ReadInt32s(f, p, n) == [i \in 1..n |-> WordAt(f, (p \div Int32Size) + i - 1)]

\* ------------------------------------------------------------------------
\* sageResults
\* ------------------------------------------------------------------------
\* attributes after __init__
NewReader(path) ==
    [ filename              |-> path,
      totntrees             |-> None,
      totngals              |-> None,
      ngal_per_tree         |-> None,
      bytes_offset_per_tree |-> None,
      ignored_fields        |-> <<>>,
      fd                    |-> "open",
      fp                    |-> "open" ]

\* fp with every reader on one shared file description
fpShared(r) == 1

\* the stream self.fp: each reader opens a file description of its own
fp(r) == r

\* ngal_per_tree * self.dtype.itemsize, an int32 array
TreeSizes(ngal) == [i \in 1..Len(ngal) |-> MulWrap32(ngal[i], itemsize)]

RECURSIVE SumWrap32(_, _)
SumWrap32(a, n) == IF n <= 0 THEN 0 ELSE AddWrap32(SumWrap32(a, n - 1), a[n])

\* a.cumsum(): the running sums.  numpy accumulates them in the platform
\* integer; they are only ever stored back into the int32 array, which keeps
\* their low 32 bits, so they are kept here as int32.
cumsum(a) == [i \in 1..Len(a) |-> SumWrap32(a, i)]

\* bytes_offset_per_tree[1:-1] = tmp[0:-2]; bytes_offset_per_tree[0] = 0
\* (1-based here: entries 2..n-1 take tmp[1..n-2], entry 1 becomes 0, and
\* entry n, outside the slice, keeps the size of tree n)
ShiftedSizes(sizes, tmp) ==
    [i \in 1..Len(sizes) |->
        IF i = 1 THEN 0
        ELSE IF i <= Len(sizes) - 1 THEN tmp[i - 1]
        ELSE sizes[i]]

header_size(totntrees) == 4 + 4 + totntrees * 4

\* the offset table of read_header, for a non-empty ngal_per_tree
OffsetTable(ngal, totntrees) ==
    LET sizes   == TreeSizes(ngal)
        shifted == ShiftedSizes(sizes, cumsum(sizes))
    IN  [i \in 1..Len(ngal) |-> AddWrap32(shifted[i], header_size(totntrees))]

\* read_header on instance st with the stream at byte p of file f:
\* the new attributes, the new stream position and the exception raised
read_header(st, p, f) ==
    LET n1 == FromFileCount(f, p, Int32Size, 1)
        p1 == FromFilePos(f, p, Int32Size, 1)
        n2 == FromFileCount(f, p1, Int32Size, 1)
        p2 == FromFilePos(f, p1, Int32Size, 1)
        totntrees == WordAt(f, p \div Int32Size)
        totngals  == WordAt(f, p1 \div Int32Size)
        k  == FromFileCount(f, p2, Int32Size, totntrees)
        p3 == FromFilePos(f, p2, Int32Size, totntrees)
        ngal == ReadInt32s(f, p2, k)
        st1 == [st EXCEPT !.totntrees = Some(totntrees),
                          !.totngals = Some(totngals),
                          !.ngal_per_tree = Some(ngal)]
    IN  IF n1 = 0 THEN      \* [0] on an empty array
            [st |-> st, pos |-> p1, exc |-> "IndexError"]
        ELSE IF n2 = 0 THEN
            [st |-> st, pos |-> p2, exc |-> "IndexError"]
        ELSE IF k = 0 THEN  \* bytes_offset_per_tree[0] = 0 on an empty array
            [st |-> st1, pos |-> p3, exc |-> "IndexError"]
        ELSE
            [st |-> [st1 EXCEPT !.bytes_offset_per_tree =
                                    Some(OffsetTable(ngal, totntrees))],
             pos |-> p3, exc |-> "ok"]

\* the names bound at module level: the imports, xrange, the class and the
\* function
GlobalNames ==
    {"print_function", "np", "os", "sys", "getFileSize", "xrange",
     "sageResults", "compare_catalogs"}

\* the built-in names the module uses
BuiltinNames ==
    {"open", "print", "isinstance", "type", "enumerate", "zip", "len", "range",
     "object", "ValueError", "AttributeError", "ImportError", "NameError"}

\* a bare name in a method body is looked up among the globals of the
\* module and the built-ins
Resolves(name) == name \in GlobalNames \cup BuiltinNames

\* __exit__ on instance st: os.close(self.fd), then close(self.fp); the
\* attributes afterwards and the exception the method itself raises
__exit__(st) ==
    LET st1 == [st EXCEPT !.fd = "closed"]
    IN  IF Resolves("close") THEN
            [st |-> [st1 EXCEPT !.fp = "closed"], exc |-> "ok"]
        ELSE [st |-> st1, exc |-> "NameError"]

\* str.format raises IndexError when the template names a positional
\* argument that was not passed
FormatRaises(maxIndex, nargs) == maxIndex >= nargs

\* what the out-of-range branch of read_tree raises: the message template
\* uses {0} and {2} and format() is given two arguments
OutOfRangeError == IF FormatRaises(2, 2) THEN "IndexError" ELSE "ValueError"

\* EmptyTree with the early return for empty trees dropped
EmptyTreeNever(ngal) == FALSE

\* the `ngal == 0` test of read_tree
EmptyTree(ngal) == ngal = 0

\* read_tree(treenum) on instance st with the stream at byte p of file f;
\* `at` is where the stream stands once the header is known
read_tree(st, p, f, treenum) ==
    LET h   == IF st.totntrees = None THEN read_header(st, p, f)
               ELSE [st |-> st, pos |-> p, exc |-> "ok"]
        s   == h.st
        q   == h.pos
        raised(e) == [st |-> s, at |-> q, pos |-> q, exc |-> e, val |-> "raised", n |-> 0]
    IN  IF h.exc # "ok" THEN raised(h.exc)
        ELSE IF treenum < 0 \/ treenum >= Val(s.totntrees) THEN
            raised(OutOfRangeError)
        ELSE IF treenum >= Len(Val(s.ngal_per_tree)) THEN
            raised("IndexError")    \* self.ngal_per_tree[treenum]
        ELSE LET ngal == Val(s.ngal_per_tree)[treenum + 1]
             IN  IF EmptyTree(ngal) THEN
                     [st |-> s, at |-> q, pos |-> q, exc |-> "ok",
                      val |-> "None", n |-> 0]
                 ELSE
                     [st |-> s, at |-> q, pos |-> FromFilePos(f, q, itemsize, ngal),
                      exc |-> "ok", val |-> "tree",
                      n |-> FromFileCount(f, q, itemsize, ngal)]

\* ------------------------------------------------------------------------
\* Input files
\* ------------------------------------------------------------------------
\* the value every int32 word of record data reads as
FillVals == {1}

\* per-tree galaxy counts of the well-formed catalogs
CountSeqs == UNION {[1..T -> 0..MaxCount] : T \in 0..MaxTrees}

\* the catalog the producer writes for per-tree counts c
GoodFile(c, fl) ==
    [ words |-> <<Len(c), Sum(c)>> \o c,
      flen  |-> 8 + 4 * Len(c) + itemsize * Sum(c),
      fill  |-> fl ]

GoodFiles == {GoodFile(c, fl) : c \in CountSeqs, fl \in FillVals}

\* g cut down to its first x bytes
CutFile(g, x) ==
    [g EXCEPT !.flen = x,
              !.words = SubSeq(g.words, 1, Min(Len(g.words), x \div Int32Size))]

CutPoints(g) ==
    {x \in {0, 4, 4 * Len(g.words) - 4, g.flen - 4, g.flen - itemsize} :
        0 <= x /\ x < g.flen}

TruncatedFiles == UNION {{CutFile(g, x) : x \in CutPoints(g)} : g \in GoodFiles}

\* total galaxy count off by one
BadSumFiles == {[g EXCEPT !.words[2] = @ + 1] : g \in GoodFiles}

\* a negative tree count, on catalogs without records
NegTreesFiles ==
    {[g EXCEPT !.words[1] = -1] : g \in {x \in GoodFiles : x.words[2] = 0}}

\* one per-tree count negative
NegCountFiles ==
    UNION {{[g EXCEPT !.words[2 + i] = -1] : i \in 1..g.words[1]} : g \in GoodFiles}

Files ==
    GoodFiles \cup TruncatedFiles \cup BadSumFiles \cup NegTreesFiles
        \cup NegCountFiles

\* tree numbers passed to read_tree, in range and out of range
TreeArgs == -1..MaxTrees

\* ------------------------------------------------------------------------
\* Initial states and actions
\* ------------------------------------------------------------------------
\* no compare_catalogs call made yet
NoCompare ==
    [ kind |-> "idle", tree |-> None, field |-> "", rows |-> <<>>, numbad |-> 0,
      total |-> 0, reads |-> <<>>, p1 |-> 0, p2 |-> 0 ]

\* no read_galaxies call made
NoGalaxies ==
    [ pc |-> "idle", fnr |-> 0, tot_ngals |-> 0, good_files |-> 0, counted |-> {},
      offset |-> 0, copied |-> {}, filled |-> {} ]

NoCall ==
    [ rdr |-> 0, op |-> "init", arg |-> 0, exc |-> "ok", val |-> "None", n |-> 0,
      from |-> 0, to |-> 0, hdrRead |-> FALSE, seq |-> -1 ]

\* readers rs constructed on the one file f
InitWith(rs, f) ==
    /\ disk = [path \in {1} |-> f]
    /\ rd = [r \in rs |-> NewReader(1)]
    /\ pos = [d \in {fp(r) : r \in rs} |-> 0]
    /\ hdrCalls = [r \in rs |-> 0]
    /\ seqNext = [r \in rs |-> -1]
    /\ ret = NoCall
    /\ recs = [path \in {1} |-> <<>>]
    /\ tie = "stable"
    /\ cmp = NoCompare
    /\ gal = NoGalaxies

\* one reader on any file
Init == \E f \in Files : InitWith({1}, f)

\* two readers opened on the same well-formed catalog
InitTwo ==
    \E f \in {g \in GoodFiles : g.words[1] <= MaxTreesTwo} : InitWith({1, 2}, f)

Readers == DOMAIN rd

FileOf(r) == disk[rd[r].filename]

\* g.read_header()
ReadHeader(r) ==
    LET p == pos[fp(r)]
        h == read_header(rd[r], p, FileOf(r))
    IN  /\ hdrCalls[r] < MaxHeaderReads
        /\ hdrCalls' = [hdrCalls EXCEPT ![r] = @ + 1]
        /\ rd' = [rd EXCEPT ![r] = h.st]
        /\ pos' = [pos EXCEPT ![fp(r)] = h.pos]
        /\ seqNext' = [seqNext EXCEPT ![r] =
                IF rd[r].totntrees = None /\ p = 0 /\ h.exc = "ok" THEN 0 ELSE -1]
        /\ ret' = [ rdr |-> r, op |-> "read_header", arg |-> 0, exc |-> h.exc,
                    val |-> IF h.exc = "ok" THEN "None" ELSE "raised", n |-> 0,
                    from |-> p, to |-> h.pos,
                    hdrRead |-> rd[r].totntrees # None, seq |-> seqNext[r] ]
        /\ UNCHANGED <<disk, recs, tie, cmp, gal>>

\* g.read_tree(t)
ReadTree(r, t) ==
    LET p == pos[fp(r)]
        x == read_tree(rd[r], p, FileOf(r), t)
        \* the order bookkeeping, after the header read that read_tree does
        \* itself on a fresh reader
        sq == IF rd[r].totntrees # None THEN seqNext[r]
              ELSE IF p = 0 /\ x.st.bytes_offset_per_tree # None THEN 0 ELSE -1
    IN  /\ rd' = [rd EXCEPT ![r] = x.st]
        /\ pos' = [pos EXCEPT ![fp(r)] = x.pos]
        /\ seqNext' = [seqNext EXCEPT ![r] =
                IF x.exc = "ok" /\ sq = t THEN t + 1 ELSE -1]
        /\ ret' = [ rdr |-> r, op |-> "read_tree", arg |-> t, exc |-> x.exc,
                    val |-> x.val, n |-> x.n,
                    from |-> x.at, to |-> x.pos,
                    hdrRead |-> rd[r].totntrees # None, seq |-> sq ]
        /\ UNCHANGED <<disk, hdrCalls, recs, tie, cmp, gal>>

Next ==
    \/ \E r \in Readers : ReadHeader(r)
    \/ \E r \in Readers, t \in TreeArgs : ReadTree(r, t)

Spec == Init /\ [][Next]_vars

\* leaving the `with sageResults(...) as g:` block: g.__exit__(type, ...) with
\* type the exception that ended the block, "None" if it ended normally
Exit(r) ==
    /\ rd[r].fd = "open"
    /\ rd' = [rd EXCEPT ![r] = __exit__(rd[r]).st]
    /\ ret' = [ rdr |-> r, op |-> "__exit__", arg |-> 0,
                exc |-> __exit__(rd[r]).exc,
                val |-> IF __exit__(rd[r]).exc = "ok" THEN "None" ELSE "raised",
                n |-> 0, from |-> pos[fp(r)], to |-> pos[fp(r)],
                hdrRead |-> rd[r].totntrees # None, seq |-> seqNext[r],
                type |-> IF ret.exc = "ok" THEN "None" ELSE ret.exc ]
    /\ UNCHANGED <<disk, pos, hdrCalls, seqNext, recs, tie, cmp, gal>>

\* the catalogs read inside a with block: those of at most MaxTreesTwo trees,
\* whole or damaged
WithFiles == {f \in Files : Len(f.words) <= 2 + MaxTreesTwo}

InitBlock == \E f \in WithFiles : InitWith({1}, f)

\* `with sageResults(file) as g:` followed by calls on g; an exception ends
\* the block, and leaving the block, either way, calls g.__exit__
NextBlock ==
    \/ rd[1].fd = "open" /\ ret.exc = "ok" /\ ReadHeader(1)
    \/ rd[1].fd = "open" /\ ret.exc = "ok" /\ \E t \in TreeArgs : ReadTree(1, t)
    \/ Exit(1)

SpecBlock == InitBlock /\ [][NextBlock]_vars

\* ------------------------------------------------------------------------
\* read_galaxies (output/sage-plot/sage-plot.py)
\* ------------------------------------------------------------------------
\* the number of files model_path_<first_file> .. model_path_<last_file>
NumFiles == 2

\* no file of that name
Missing == [words |-> <<>>, flen |-> 0, fill |-> 0]

\* a one-tree catalog of n galaxies, and the same with its last record lost
WholeFiles == {GoodFile(<<n>>, 1) : n \in 1..(MaxCount + 1)}

CutShortFiles == {CutFile(g, g.flen - itemsize) : g \in WholeFiles}

\* the files read_galaxies meets: missing, empty, cut inside the preamble,
\* whole, and holding one record fewer than the header declares
GalaxyFiles ==
    {Missing, CutFile(GoodFile(<<1>>, 1), 0), CutFile(GoodFile(<<1>>, 1), 4)}
        \cup WholeFiles \cup CutShortFiles

\* os.path.isfile(fname)
isfile(f) == f # Missing

\* os.path.getsize(fname)
getsize(f) == f.flen

\* the two reads both passes start with: ntrees = np.fromfile(fin, int32, 1)
\* and ntotgals = np.fromfile(fin, int32, 1)[0]; [0] on an empty array raises
Preamble(f) ==
    LET p1 == FromFilePos(f, 0, Int32Size, 1)
    IN  IF FromFileCount(f, p1, Int32Size, 1) = 0 THEN
            [exc |-> "IndexError", ntrees |-> 0, ntotgals |-> 0, pos |-> p1]
        ELSE [exc |-> "ok", ntrees |-> WordAt(f, 0), ntotgals |-> WordAt(f, 1),
              pos |-> FromFilePos(f, p1, Int32Size, 1)]

\* one turn of the first loop on file f: what it adds to tot_ngals and
\* whether the file is counted; a skipped file and a read that raises
\* (caught by the except clause) add nothing
CountedFile(f) ==
    IF ~isfile(f) \/ getsize(f) = 0 THEN [counted |-> FALSE, ngals |-> 0]
    ELSE IF Preamble(f).exc # "ok" THEN [counted |-> FALSE, ngals |-> 0]
    ELSE [counted |-> TRUE, ngals |-> Preamble(f).ntotgals]

\* galaxies[a:b] = gg: numpy copies an array of the slice's length, spreads
\* an array of length 1 over the slice, and raises ValueError otherwise
CanAssign(k, len) == k = len \/ k = 1

\* one turn of the second loop on file f with the storage array of `total`
\* slots and the write offset at `offset`: whether the file was copied, the
\* slots written and the new offset
CopiedFile(f, offset, total) ==
    LET skip == [copied |-> FALSE, slots |-> {}, offset |-> offset]
        h    == Preamble(f)
        \* gals_per_tree: one item of ntrees int32 values
        p3   == FromFilePos(f, h.pos, Int32Size * h.ntrees, 1)
        \* gg = np.fromfile(fin, galdesc, ntotgals)
        k    == FromFileCount(f, p3, itemsize, h.ntotgals)
        \* the slice galaxies[offset:offset + ntotgals], cut at the array's end
        len  == Min(offset + h.ntotgals, total) - offset
    IN  IF ~isfile(f) \/ getsize(f) = 0 THEN skip
        ELSE IF h.exc # "ok" THEN skip
        ELSE IF ~CanAssign(k, len) THEN skip
        ELSE [copied |-> TRUE, slots |-> (offset + 1)..(offset + len),
              offset |-> offset + h.ntotgals]

InitGalaxies ==
    \E fs \in [1..NumFiles -> GalaxyFiles] :
        /\ disk = fs
        /\ rd = <<>>
        /\ pos = <<>>
        /\ hdrCalls = <<>>
        /\ seqNext = <<>>
        /\ ret = NoCall
        /\ recs = <<>>
        /\ tie = "stable"
        /\ cmp = NoCompare
        /\ gal = [NoGalaxies EXCEPT !.pc = "count", !.fnr = 1]

\* first pass, one file
CountFile ==
    /\ gal.pc = "count" /\ gal.fnr <= NumFiles
    /\ gal' = [gal EXCEPT
                  !.fnr = @ + 1,
                  !.tot_ngals = @ + CountedFile(disk[gal.fnr]).ngals,
                  !.good_files = @ + (IF CountedFile(disk[gal.fnr]).counted THEN 1 ELSE 0),
                  !.counted = IF CountedFile(disk[gal.fnr]).counted
                              THEN @ \cup {gal.fnr} ELSE @]
    /\ UNCHANGED <<disk, rd, pos, hdrCalls, seqNext, ret, recs, tie, cmp>>

\* between the passes: with no galaxy counted a sample dataset is returned,
\* else galaxies = np.empty(tot_ngals, ...) and offset = 0
Allocate ==
    /\ gal.pc = "count" /\ gal.fnr > NumFiles
    /\ gal' = [gal EXCEPT !.pc = IF gal.tot_ngals = 0 THEN "sample" ELSE "read",
                          !.fnr = 1, !.offset = 0]
    /\ UNCHANGED <<disk, rd, pos, hdrCalls, seqNext, ret, recs, tie, cmp>>

\* second pass, one file
CopyFile ==
    /\ gal.pc = "read" /\ gal.fnr <= NumFiles
    /\ gal' = [gal EXCEPT
                  !.fnr = @ + 1,
                  !.offset = CopiedFile(disk[gal.fnr], gal.offset, gal.tot_ngals).offset,
                  !.filled = @ \cup CopiedFile(disk[gal.fnr], gal.offset, gal.tot_ngals).slots,
                  !.copied = IF CopiedFile(disk[gal.fnr], gal.offset, gal.tot_ngals).copied
                             THEN @ \cup {gal.fnr} ELSE @]
    /\ UNCHANGED <<disk, rd, pos, hdrCalls, seqNext, ret, recs, tie, cmp>>

\* return galaxies, volume, metadata
Return ==
    /\ gal.pc = "read" /\ gal.fnr > NumFiles
    /\ gal' = [gal EXCEPT !.pc = "done"]
    /\ UNCHANGED <<disk, rd, pos, hdrCalls, seqNext, ret, recs, tie, cmp>>

NextGalaxies == CountFile \/ Allocate \/ CopyFile \/ Return

SpecGalaxies == InitGalaxies /\ [][NextGalaxies]_vars

\* per-tree galaxy counts of large catalogs: a tree of 9300000 galaxies takes
\* 9300000 * 232 bytes, more than 2^31 - 1, one of 18600000 more than 2^32
LargeCounts == {0, 1, 9300000, 18600000}

\* the header the producer writes for per-tree counts c, without the records
HeaderOnly(c) ==
    [ words |-> <<Len(c), Sum(c)>> \o c,
      flen  |-> 8 + 4 * Len(c),
      fill  |-> 1 ]

LargeHeaders ==
    {HeaderOnly(c) : c \in UNION {[1..T -> LargeCounts] : T \in 1..MaxTrees}}

InitLarge == \E f \in LargeHeaders : InitWith({1}, f)

\* the header of a large catalog is read
NextLarge == \E r \in Readers : ReadHeader(r)

SpecLarge == InitLarge /\ [][NextLarge]_vars

SpecTwo == InitTwo /\ [][Next]_vars

\* ------------------------------------------------------------------------
\* Galaxy records and the numpy calls of compare_catalogs
\* ------------------------------------------------------------------------
\* _names: the field names of the record, in layout order
names ==
    << "SnapNum", "Type", "GalaxyIndex", "CentralGalaxyIndex", "SAGEHaloIndex",
       "SAGETreeIndex", "SimulationHaloIndex", "mergeType", "mergeIntoID",
       "mergeIntoSnapNum", "dT", "Pos", "Vel", "Spin", "Len",
       "Mvir", "CentralMvir", "Rvir", "Vvir", "Vmax", "VelDisp",
       "ColdGas", "StellarMass", "BulgeMass", "HotGas", "EjectedMass",
       "BlackHoleMass", "IntraClusterStars",
       "MetalsColdGas", "MetalsStellarMass", "MetalsBulgeMass", "MetalsHotGas",
       "MetalsEjectedMass", "MetalsIntraClusterStars",
       "SfrDisk", "SfrBulge", "SfrDiskZ", "SfrBulgeZ",
       "DiskRadius", "Cooling", "Heating",
       "QuasarModeBHaccretionMass", "TimeOfLastMajorMerger",
       "TimeOfLastMinorMerger", "OutflowRate",
       "infallMvir", "infallVvir", "infallVmax" >>

\* the fields declared np.int32 or np.int64
IntegerFields ==
    { "SnapNum", "Type", "GalaxyIndex", "CentralGalaxyIndex", "SAGEHaloIndex",
      "SAGETreeIndex", "SimulationHaloIndex", "mergeType", "mergeIntoID",
      "mergeIntoSnapNum", "Len" }

\* A field value is a whole number Num(v), or NaN (float fields only).
Num(v) == <<v>>

NaN == <<>>

\* A record holds the fields that vary over the catalogs of the model; every
\* other field holds the same number in every record.
BaseValue == Num(0)

FieldOf(rec, fld) == IF fld \in DOMAIN rec THEN rec[fld] ELSE BaseValue

\* s as an explicit tuple, so that TLC evaluates its elements only once
Tuple(s) == s \o <<>>

\* t[fld]: the column of field fld of the batch t
Column(t, fld) == Tuple([i \in 1..Len(t) |-> FieldOf(t[i], fld)])

Abs(x) == IF x < 0 THEN -x ELSE x

\* 1 / rtol of np.allclose (rtol = 1e-05)
RtolInv == 100000

\* np.isclose with the default tolerances, abs(a - b) <= atol + rtol * abs(b):
\* NaN is close to nothing; for whole numbers atol = 1e-08 decides nothing
\* and the test is RtolInv * abs(a - b) <= abs(b)
isclose(a, b) ==
    IF a = NaN \/ b = NaN THEN FALSE
    ELSE Abs(Val(a) - Val(b)) <= Abs(Val(b)) \div RtolInv

\* isclose as an exact comparison
iscloseExact(a, b) == a # NaN /\ a = b

\* np.allclose(f1, f2) on two columns of one length
allclose(f1, f2) == \A i \in 1..Len(f1) : isclose(f1[i], f2[i])

\* the tie orders of the sorts a numpy build may use
TieRules == {"stable", "reversed"}

\* key i sorts before key j
Before(keys, rule, i, j) ==
    \/ Val(keys[i]) < Val(keys[j])
    \/ /\ keys[i] = keys[j]
       /\ IF rule = "stable" THEN i < j ELSE i > j

\* argsort that leaves the batch in file order
argsortNone(keys, rule) == Tuple([k \in 1..Len(keys) |-> k])

\* np.argsort(keys): the indices (1-based) in ascending key order
argsort(keys, rule) ==
    Tuple([k \in 1..Len(keys) |->
              CHOOSE i \in 1..Len(keys) :
                  Cardinality({j \in 1..Len(keys) : Before(keys, rule, j, i)}) = k - 1])

\* t[xx]
Take(t, xx) == Tuple([k \in 1..Len(xx) |-> t[xx[k]]])

\* t sorted on SimulationHaloIndex (lines 233-237)
SortedBatch(t, rule) == Take(t, argsort(Column(t, "SimulationHaloIndex"), rule))

\* where the records start in file f
DataStart(f) == Int32Size * Len(f.words)

\* the n records np.fromfile returns from byte `at` of file f holding rs
Batch(f, rs, at, n) ==
    Tuple([i \in 1..n |-> rs[(at - DataStart(f)) \div itemsize + i]])

\* ------------------------------------------------------------------------
\* compare_catalogs(g1, g2)
\* ------------------------------------------------------------------------
\* what a call reports and does: `kind` is "Equal" for a normal return, else
\* the check that raised; `tree` and `field` are the tree number and field
\* name the message carries; `rows` the record indices printed, `numbad` and
\* `total` the two numbers of the summary line; `reads` the read_tree calls
\* made, as <<catalog, treenum>>; p1, p2 the stream positions afterwards
Report(kind, tree, field, rows, numbad, total, reads, p1, p2) ==
    [ kind |-> kind, tree |-> tree, field |-> field, rows |-> rows,
      numbad |-> numbad, total |-> total, reads |-> reads, p1 |-> p1, p2 |-> p2 ]

\* Ignored with nothing ever excluded
IgnoredNothing(s1, s2) == {}

\* Ignored taking every field either reader lists
IgnoredByEither(s1, s2) ==
    {s1.ignored_fields[i] : i \in 1..Len(s1.ignored_fields)}
        \cup {s2.ignored_fields[j] : j \in 1..Len(s2.ignored_fields)}

\* Ignored taking the list of the first reader alone
IgnoredByFirst(s1, s2) ==
    {s1.ignored_fields[i] : i \in 1..Len(s1.ignored_fields)}

\* ignored_fields = [a for a in g1.ignored_fields if a in g2.ignored_fields]
Ignored(s1, s2) ==
    {s1.ignored_fields[i] : i \in
        {k \in 1..Len(s1.ignored_fields) :
            \E j \in 1..Len(s2.ignored_fields) :
                s2.ignored_fields[j] = s1.ignored_fields[k]}}

\* FirstMismatch scanning from the last tree down
LastMismatch(n1, n2) ==
    LET d == {i \in 1..Min(Len(n1), Len(n2)) : n1[i] # n2[i]}
    IN  IF d = {} THEN 0 ELSE CHOOSE i \in d : \A j \in d : j <= i

\* the loop over zip(g1.ngal_per_tree, g2.ngal_per_tree): the first place
\* (1-based) where the two count lists differ, 0 if there is none
FirstMismatch(n1, n2) ==
    LET d == {i \in 1..Min(Len(n1), Len(n2)) : n1[i] # n2[i]}
    IN  IF d = {} THEN 0 ELSE CHOOSE i \in d : \A j \in d : i <= j

\* FirstBadField running through the names from the last one
LastBadField(t1, t2, ignored) ==
    LET bad == {k \in 1..Len(names) :
                    /\ names[k] \notin ignored
                    /\ ~allclose(Column(t1, names[k]), Column(t2, names[k]))}
    IN  IF bad = {} THEN 0 ELSE CHOOSE k \in bad : \A j \in bad : j <= k

\* the loop over g1.dtype.names: the first field (its place in names) that
\* is not ignored and not allclose between the sorted batches, 0 if none
FirstBadField(t1, t2, ignored) ==
    LET bad == {k \in 1..Len(names) :
                    /\ names[k] \notin ignored
                    /\ ~allclose(Column(t1, names[k]), Column(t2, names[k]))}
    IN  IF bad = {} THEN 0 ELSE CHOOSE k \in bad : \A j \in bad : k <= j

\* RowClose with two NaN taken as equal
RowCloseEqualNaN(a, b) == (a = NaN /\ b = NaN) \/ isclose(a, b)

\* the per-row test np.allclose(_f1, _f2) of the report loop
RowClose(a, b) == isclose(a, b)

RECURSIVE BadRows(_, _, _)
\* the indices _ii printed for the first n rows of the columns f1, f2
BadRows(f1, f2, n) ==
    IF n = 0 THEN <<>>
    ELSE LET r == BadRows(f1, f2, n - 1)
         IN  IF RowClose(f1[n], f2[n]) THEN r ELSE Append(r, n - 1)

\* numbad: incremented once for every row printed
NumBad(f1, f2) == Cardinality({i \in 1..Len(f1) : ~RowClose(f1[i], f2[i])})

\* StructuralMismatch with the two checks left out
NoStructuralCheck(s1, s2) == ""

\* the first two checks, totntrees and totngals; "" when both pass
StructuralMismatch(s1, s2) ==
    IF s1.totntrees # s2.totntrees THEN "trees"
    ELSE IF s1.totngals # s2.totngals THEN "galaxies"
    ELSE ""

\* SkipTree passing over every tree
SkipTreeAlways(ngal) == TRUE

\* if g1.ngal_per_tree[treenum] == 0: continue
SkipTree(ngal) == ngal = 0

RECURSIVE CompareTrees(_, _, _, _, _)

\* one turn of the loop over the trees, for a tree that g1 declares
\* non-empty: x1 and x2 are what g1.read_tree(t) and g2.read_tree(t) give,
\* p2 is where g2's stream stood before; a call that raises ends the turn
CompareBatches(c, t, x1, x2, p2, reads) ==
    LET rd1 == Append(reads, <<1, t>>)
        rd2 == Append(rd1, <<2, t>>)
        raised(e, rds, q1, q2) == Report(e, None, "", <<>>, 0, 0, rds, q1, q2)
    IN  IF x1.exc # "ok" THEN raised(x1.exc, rd1, x1.pos, p2)
        ELSE IF x2.exc # "ok" THEN raised(x2.exc, rd2, x1.pos, x2.pos)
        ELSE IF x1.val = "None" \/ x2.val = "None" THEN
            raised("None", rd2, x1.pos, x2.pos)
        ELSE IF x1.n # x2.n THEN raised("shape", rd2, x1.pos, x2.pos)
        ELSE
        LET t1 == SortedBatch(Batch(c.f1, c.r1, x1.at, x1.n), c.rule)
            t2 == SortedBatch(Batch(c.f2, c.r2, x2.at, x2.n), c.rule)
            k  == FirstBadField(t1, t2, c.ignored)
        IN  IF k = 0 THEN CompareTrees(c, t + 1, x1.pos, x2.pos, rd2)
            ELSE LET f1 == Column(t1, names[k])
                     f2 == Column(t2, names[k])
                 IN  Report("field", None, names[k],
                            BadRows(f1, f2, Len(f1)), NumBad(f1, f2),
                            Len(f1), rd2, x1.pos, x2.pos)

\* the loop over the trees from treenum t on; c holds the two readers'
\* attributes s1, s2, their files f1, f2 with the records r1, r2, the tie
\* order of the sort and the ignored fields
CompareTrees(c, t, p1, p2, reads) ==
    LET ngal1 == Val(c.s1.ngal_per_tree)
    IN  IF t >= Val(c.s1.totntrees) THEN
            Report("Equal", None, "", <<>>, 0, 0, reads, p1, p2)
        ELSE IF t >= Len(ngal1) THEN
            Report("IndexError", None, "", <<>>, 0, 0, reads, p1, p2)
        ELSE IF SkipTree(ngal1[t + 1]) THEN CompareTrees(c, t + 1, p1, p2, reads)
        ELSE CompareBatches(c, t, read_tree(c.s1, p1, c.f1, t),
                            read_tree(c.s2, p2, c.f2, t), p2, reads)

\* compare_catalogs on readers with attributes s1, s2 and streams at p1, p2
compare_catalogs(s1, p1, f1, r1, s2, p2, f2, r2, rule) ==
    LET raised(e, tr) == Report(e, tr, "", <<>>, 0, 0, <<>>, p1, p2)
        sm == StructuralMismatch(s1, s2)
    IN  IF sm # "" THEN raised(sm, None)
        ELSE IF s1.ngal_per_tree = None \/ s2.ngal_per_tree = None THEN
            raised("TypeError", None)       \* zip(None, None)
        ELSE
        LET i == FirstMismatch(Val(s1.ngal_per_tree), Val(s2.ngal_per_tree))
        IN  IF i # 0 THEN raised("treecount", Some(i - 1))
            ELSE CompareTrees([ s1 |-> s1, s2 |-> s2, f1 |-> f1, f2 |-> f2,
                                r1 |-> r1, r2 |-> r2, rule |-> rule,
                                ignored |-> Ignored(s1, s2) ],
                              0, p1, p2, <<>>)

\* ------------------------------------------------------------------------
\* The catalogs that are compared
\* ------------------------------------------------------------------------
\* the fields that vary over the catalogs of the model
VarFields == {"GalaxyIndex", "SimulationHaloIndex", "Len", "Mvir"}

\* how the SimulationHaloIndex values run inside a catalog: ascending,
\* descending, or the same for every galaxy
KeyPatterns == {"asc", "desc", "same"}

\* record number i of n, under key pattern kp; Len = 200000 * i is large
\* enough for the relative tolerance to cover a difference of 1
Galaxy(i, n, kp, mvir) ==
    [ GalaxyIndex         |-> Num(i),
      SimulationHaloIndex |-> Num(IF kp = "asc" THEN i
                                  ELSE IF kp = "desc" THEN n + 1 - i ELSE 1),
      Len                 |-> Num(200000 * i),
      Mvir                |-> mvir ]

\* a complete catalog with per-tree counts c: the file and its records;
\* the first galaxy has Mvir = mv (200001 or NaN), the others Mvir = 1
Catalog(c, kp, mv) ==
    [ file |-> GoodFile(c, 1),
      recs |-> [i \in 1..Sum(c) |->
                   Galaxy(i, Sum(c), kp, IF i = 1 THEN mv ELSE Num(1))] ]

\* per-tree galaxy counts of the catalogs that are compared
CountSeqsCmp ==
    {c \in UNION {[1..T -> 0..MaxGalaxiesCmp] : T \in 1..MaxTreesCmp} :
        Sum(c) <= MaxGalaxiesCmp}

Catalogs ==
    {Catalog(c, kp, mv) : c \in CountSeqsCmp, kp \in KeyPatterns,
                          mv \in {Num(200001), NaN}}

\* the other values a field of record i is given in the second catalog:
\* a Len within and one beyond the tolerance; an Mvir that is NaN or 199999,
\* which is 2 away from 200001 and far from 1; the rest beyond the tolerance
OtherValues(rec, fld) ==
    IF fld = "Len" THEN {Num(Val(rec[fld]) + 1), Num(Val(rec[fld]) + 50)}
    ELSE IF fld = "Mvir" THEN {Num(199999), NaN} \ {rec[fld]}
    ELSE IF fld = "SimulationHaloIndex" THEN {Num(Val(rec[fld]) + 2)}
    ELSE {Num(Val(rec[fld]) + 10)}

\* catalog a with field fld of record i set to v
Perturbed(a, i, fld, v) == [a EXCEPT !.recs[i][fld] = v]

\* catalog a with records i and i + 1 exchanged
Swapped(a, i) == [a EXCEPT !.recs[i] = a.recs[i + 1], !.recs[i + 1] = a.recs[i]]

\* the counts of catalog a
CountsOf(a) == SubSeq(a.file.words, 3, Len(a.file.words))

\* the places i such that records i and i + 1 belong to one tree
SameTreePairs(a) ==
    {i \in 1..(Len(a.recs) - 1) :
        \E t \in 1..Len(CountsOf(a)) :
            SumTo(CountsOf(a), t - 1) < i /\ i + 1 <= SumTo(CountsOf(a), t)}

\* catalog a with one galaxy of tree t declared in tree t + 1 instead
CountMoved(a, t) ==
    [a EXCEPT !.file.words[2 + t] = @ - 1, !.file.words[3 + t] = @ + 1]

\* catalog a with its total galaxy count raised by one
TotalRaised(a) == [a EXCEPT !.file.words[2] = @ + 1]

\* catalog a with one more, empty, tree
TreeAdded(a) ==
    [a EXCEPT !.file = GoodFile(Append(CountsOf(a), 0), 1)]

\* catalog a cut short by its last record
LastRecordCut(a) ==
    [ file |-> CutFile(a.file, a.file.flen - itemsize),
      recs |-> SubSeq(a.recs, 1, Len(a.recs) - 1) ]

\* catalog a with one field of one record changed
Perturbations(a) ==
    UNION {UNION {{Perturbed(a, i, fld, v) : v \in OtherValues(a.recs[i], fld)} :
                     fld \in VarFields} : i \in 1..Len(a.recs)}

\* the second catalogs compared with catalog a
Variants(a) ==
    {a} \cup Perturbations(a)
        \cup {Swapped(a, i) : i \in SameTreePairs(a)}
        \cup {CountMoved(a, t) :
                  t \in {u \in 1..(Len(CountsOf(a)) - 1) : CountsOf(a)[u] >= 1}}
        \cup {TotalRaised(a), TreeAdded(a)}

\* the pairs of catalogs compared: a catalog and a variant of it, or a
\* catalog cut short and its copy
Pairs ==
    UNION {{<<a, b>> : b \in Variants(a)} : a \in Catalogs}
        \cup {<<LastRecordCut(a), LastRecordCut(a)>> :
                  a \in {x \in Catalogs : Len(x.recs) >= 1}}

\* the ignored_fields list of __main__
main_ignored == <<"SAGEHaloIndex", "GalaxyIndex", "CentralGalaxyIndex">>

\* the ignored_fields lists the two readers are constructed with
IgnoredLists == {<<>>, main_ignored, <<"SimulationHaloIndex">>}

\* g1 and g2 constructed on the two files of a pair
\* the lists g1 and g2 are given: the same list for both as in __main__,
\* or two lists that share one name only
IgnoredPairs ==
    {<<ig, ig>> : ig \in IgnoredLists}
        \cup {<<main_ignored, <<"GalaxyIndex", "Len">> >>}

InitCmp ==
    \E pr \in Pairs, igs \in IgnoredPairs, rule \in TieRules :
        /\ disk = [path \in {1, 2} |-> pr[path].file]
        /\ recs = [path \in {1, 2} |-> pr[path].recs]
        /\ rd = [r \in {1, 2} |-> [NewReader(r) EXCEPT !.ignored_fields = igs[r]]]
        /\ pos = [d \in {fp(1), fp(2)} |-> 0]
        /\ hdrCalls = [r \in {1, 2} |-> 0]
        /\ seqNext = [r \in {1, 2} |-> -1]
        /\ ret = NoCall
        /\ tie = rule
        /\ cmp = NoCompare
        /\ gal = NoGalaxies

\* compare_catalogs(g1, g2)
CompareCatalogs(g1, g2) ==
    LET x == compare_catalogs(rd[g1], pos[fp(g1)], FileOf(g1), recs[rd[g1].filename],
                              rd[g2], pos[fp(g2)], FileOf(g2), recs[rd[g2].filename],
                              tie)
    IN  /\ cmp.kind = "idle"
        /\ cmp' = x
        /\ pos' = [pos EXCEPT ![fp(g1)] = cmp'.p1, ![fp(g2)] = cmp'.p2]
        /\ seqNext' = [r \in Readers |-> -1]
        /\ UNCHANGED <<disk, rd, hdrCalls, ret, recs, tie, gal>>

\* the __main__ section: g1.read_header(), g2.read_header(), then
\* compare_catalogs(g1, g2); an exception ends the program
NextCmp ==
    \/ hdrCalls[1] = 0 /\ ReadHeader(1)
    \/ hdrCalls[1] = 1 /\ hdrCalls[2] = 0 /\ ret.exc = "ok" /\ ReadHeader(2)
    \/ hdrCalls[2] = 1 /\ ret.exc = "ok" /\ CompareCatalogs(1, 2)

SpecCmp == InitCmp /\ [][NextCmp]_vars

\* ------------------------------------------------------------------------
\* Vocabulary of the properties
\* ------------------------------------------------------------------------
\* the reader that made the last call, its attributes and its file
Caller == rd[ret.rdr]

CallerFile == disk[Caller.filename]

HeaderSet(st) == st.bytes_offset_per_tree # None

\* the header held by st is the one the producer wrote at the start of a
\* complete, well-formed catalog f
HoldsHeaderOf(st, f) ==
    /\ f \in GoodFiles
    /\ HeaderSet(st)
    /\ Val(st.totntrees) = f.words[1]
    /\ Val(st.totngals) = f.words[2]
    /\ Val(st.ngal_per_tree) = SubSeq(f.words, 3, Len(f.words))

\* where the records of tree number t (0-based) start in the file
TrueStart(st, t) ==
    8 + 4 * Val(st.totntrees) + itemsize * SumTo(Val(st.ngal_per_tree), t)

\* the declared galaxy count of tree number t (0-based)
Declared(st, t) == Val(st.ngal_per_tree)[t + 1]

InRange(st, t) == 0 <= t /\ t < Val(st.totntrees) /\ t < Len(Val(st.ngal_per_tree))

\* ------------------------------------------------------------------------
\* C1..C10
\* ------------------------------------------------------------------------

\* C1: after read_header on a header with T >= 1 trees and non-negative
\* counts, bytes_offset_per_tree[0] = 8 + 4*T and every later entry is the
\* previous entry plus the previous tree's count times the record size.
\* (Stated as claimed; the last entry of the table breaks it.)
C1_OffsetsArePrefixSums ==
    (ret.op = "read_header" /\ ret.exc = "ok") =>
        LET T    == Val(Caller.totntrees)
            ngal == Val(Caller.ngal_per_tree)
            off  == Val(Caller.bytes_offset_per_tree)
        IN  (T >= 1 /\ Len(ngal) = T /\ \A i \in 1..T : ngal[i] >= 0) =>
                /\ off[1] = 8 + 4 * T
                /\ \A i \in 2..T : off[i] = off[i - 1] + ngal[i - 1] * itemsize

\* C2: when the trees of a well-formed catalog are read in index order after
\* read_header, the bytes a read_tree(i) consumes are exactly the bytes
\* [bytes_offset_per_tree[i], bytes_offset_per_tree[i] + ngal_per_tree[i]*record_size).
\* (Stated as claimed.)
C2_SequentialMatchesOffsetTable ==
    (/\ ret.op = "read_tree" /\ ret.exc = "ok" /\ ret.seq = ret.arg
     /\ HoldsHeaderOf(Caller, CallerFile)) =>
        LET off == Val(Caller.bytes_offset_per_tree)[ret.arg + 1]
        IN  {b \in ret.from .. ret.to - 1 : TRUE}
                = {b \in off .. off + Declared(Caller, ret.arg) * itemsize - 1 : TRUE}

\* C3 as claimed: read_tree(index) returns the records of tree `index`, the
\* ngal_per_tree[index] records at that tree's place in the file, after any
\* sequence of earlier calls.
C3_ReadTreeAnyOrder ==
    (/\ ret.op = "read_tree" /\ ret.exc = "ok" /\ ret.val = "tree"
     /\ HoldsHeaderOf(Caller, CallerFile)) =>
        /\ ret.from = TrueStart(Caller, ret.arg)
        /\ ret.n = Declared(Caller, ret.arg)

\* C3 as amended: when the header of a complete well-formed catalog was read
\* once from the start of the file and read_tree was then called for the
\* indices 0, 1, ..., index in that order, read_tree(index) returns the
\* ngal_per_tree[index] records stored at tree index's place in the file
\* (None for an empty tree).
C3_ReadTreeInOrder ==
    (/\ ret.op = "read_tree" /\ ret.exc = "ok" /\ ret.seq = ret.arg
     /\ HoldsHeaderOf(Caller, CallerFile)) =>
        /\ ret.val = "None" => Declared(Caller, ret.arg) = 0
        /\ ret.val = "tree" =>
            /\ ret.from = TrueStart(Caller, ret.arg)
            /\ ret.n = Declared(Caller, ret.arg)
            /\ ret.to = ret.from + ret.n * itemsize

\* an in-order read of a non-empty tree that follows a non-empty tree
C3_Witness ==
    /\ ret.op = "read_tree" /\ ret.exc = "ok" /\ ret.val = "tree"
    /\ ret.seq = ret.arg /\ ret.arg >= 1
    /\ HoldsHeaderOf(Caller, CallerFile)
    /\ Declared(Caller, ret.arg - 1) > 0

\* C4: two readers opened on the same file have independent read positions:
\* a call on one reader leaves the other reader's stream position and header
\* attributes as they were, in every interleaving of the calls.
C4_ReadersIndependent ==
    [][\A r \in Readers :
          ret'.rdr # r => (rd'[r] = rd[r] /\ pos'[fp(r)] = pos[fp(r)])]_vars

\* both readers hold the header and stand at different places of the file,
\* reader 1 behind reader 2 which has just read a tree
C4_Witness ==
    /\ Readers = {1, 2}
    /\ ret.rdr = 2 /\ ret.op = "read_tree" /\ ret.val = "tree"
    /\ HeaderSet(rd[1]) /\ HeaderSet(rd[2])
    /\ seqNext[1] >= 0 /\ seqNext[2] >= 1
    /\ pos[fp(1)] < pos[fp(2)]

\* C5: when the file ends before the bytes tree i declares, read_tree(i)
\* fails with TruncatedFile and never returns fewer than ngal_per_tree[i]
\* records.  (Stated as claimed.)
C5_TruncatedFileRaises ==
    (/\ ret.op = "read_tree" /\ ret.val = "tree"
     /\ Declared(Caller, ret.arg) > 0) =>
        ret.n >= Declared(Caller, ret.arg)

\* C6: with the header read, read_tree(i) for a tree with ngal_per_tree[i] = 0
\* returns the empty result (None) and reads nothing: every stream position
\* and every reader attribute is left as it was.
C6_EmptyTreeReadsNothing ==
    [][(/\ ret'.op = "read_tree"
        /\ rd[ret'.rdr].totntrees # None
        /\ InRange(rd[ret'.rdr], ret'.arg)
        /\ Declared(rd[ret'.rdr], ret'.arg) = 0) =>
            (/\ ret'.exc = "ok" /\ ret'.val = "None"
             /\ pos' = pos /\ rd' = rd)]_vars

\* an empty tree was requested on a reader whose header was read, away from
\* the end of the file
C6_Witness ==
    /\ ret.op = "read_tree" /\ ret.hdrRead /\ ret.val = "None"
    /\ InRange(Caller, ret.arg) /\ Declared(Caller, ret.arg) = 0
    /\ ret.to < CallerFile.flen

\* C7: with the header read, read_tree(index) for index < 0 or index >= T
\* fails with the reader's ValueError and consumes no bytes.
\* (Stated as claimed.)
C7_OutOfRangeIsValueError ==
    (/\ ret.op = "read_tree" /\ ret.hdrRead
     /\ HoldsHeaderOf(Caller, CallerFile)
     /\ (ret.arg < 0 \/ ret.arg >= Val(Caller.totntrees))) =>
        (ret.exc = "ValueError" /\ ret.from = ret.to)

\* C8: whenever read_header succeeds, sum(ngal_per_tree) = totngals and no
\* declared count is negative.  (Stated as claimed.)
C8_HeaderIsConsistent ==
    (ret.op = "read_header" /\ ret.exc = "ok") =>
        LET ngal == Val(Caller.ngal_per_tree)
        IN  /\ Sum(ngal) = Val(Caller.totngals)
            /\ Val(Caller.totntrees) >= 0
            /\ \A i \in 1..Len(ngal) : ngal[i] >= 0

\* C9: on a file whose header declares T = 0 trees and N = 0 galaxies,
\* read_header succeeds and leaves an empty per-tree count list and an empty
\* offset table.  (Stated as claimed.)
C9_NoTreesHeaderSucceeds ==
    (/\ ret.op = "read_header" /\ ret.from = 0
     /\ CallerFile \in GoodFiles /\ CallerFile.words[1] = 0) =>
        /\ ret.exc = "ok"
        /\ Caller.ngal_per_tree = Some(<<>>)
        /\ Caller.bytes_offset_per_tree = Some(<<>>)

\* C10: a zero-byte file is reported as a distinct EmptyFile condition, never
\* as an index error raised from inside the header read.  (Stated as claimed.)
C10_EmptyFileIsDistinct ==
    (ret.op = "read_header" /\ CallerFile.flen = 0) => ret.exc = "EmptyFile"

\* ------------------------------------------------------------------------
\* C20
\* ------------------------------------------------------------------------
\* the header held by st is complete and declares no negative count
PlainHeader(st) ==
    /\ HeaderSet(st)
    /\ Val(st.totntrees) >= 0
    /\ Len(Val(st.ngal_per_tree)) = Val(st.totntrees)
    /\ \A i \in 1..Len(Val(st.ngal_per_tree)) : Val(st.ngal_per_tree)[i] >= 0

\* C20: in sequential use the stream position is determined by the header:
\* a read_header that finds a complete header consumes exactly 8 + 4*T bytes,
\* a read_tree(i) on a file that holds the tree consumes exactly
\* ngal_per_tree[i] * record_size bytes, so after read_header and in-order
\* reads of trees 0..k-1 (on a file long enough to hold them) the position is
\* 8 + 4*T + record_size * sum(ngal_per_tree[0..k-1]); and no call ever moves
\* a position backward.
C20_PositionFollowsHeader ==
    /\ [](/\ (ret.op = "read_header" /\ ret.exc = "ok" /\ PlainHeader(Caller)) =>
               ret.to - ret.from = 8 + 4 * Val(Caller.totntrees)
          /\ (/\ ret.op = "read_tree" /\ ret.exc = "ok" /\ PlainHeader(Caller)
              /\ InRange(Caller, ret.arg)
              /\ ret.from + Declared(Caller, ret.arg) * itemsize <= CallerFile.flen) =>
                 ret.to - ret.from = Declared(Caller, ret.arg) * itemsize
          /\ \A r \in Readers :
                (/\ seqNext[r] >= 0 /\ PlainHeader(rd[r])
                 /\ TrueStart(rd[r], seqNext[r]) <= FileOf(r).flen) =>
                    pos[fp(r)] = TrueStart(rd[r], seqNext[r]))
    /\ [][\A d \in DOMAIN pos : pos'[d] >= pos[d]]_vars

\* the header and then every tree of a three-tree catalog were read in order,
\* two of the trees holding records
C20_Witness ==
    /\ seqNext[1] = 3 /\ PlainHeader(rd[1])
    /\ Declared(rd[1], 0) > 0 /\ Declared(rd[1], 2) > 0
    /\ pos[fp(1)] = TrueStart(rd[1], 3)
    /\ pos[fp(1)] = FileOf(1).flen

\* ------------------------------------------------------------------------
\* Vocabulary of the comparator properties
\* ------------------------------------------------------------------------
\* compare_catalogs was called
Compared == cmp.kind # "idle"

\* the step that is the compare_catalogs call
CompareStep == cmp.kind = "idle" /\ cmp'.kind # "idle"

\* the per-tree counts written in the file at path
CountsOnDisk(path) == SubSeq(disk[path].words, 3, Len(disk[path].words))

\* the file at path is a complete catalog: its header agrees with itself and
\* every declared record is there
CompleteCatalog(path) ==
    LET f == disk[path]
        c == CountsOnDisk(path)
    IN  /\ Len(f.words) >= 2
        /\ f.words[1] = Len(c)
        /\ \A i \in 1..Len(c) : c[i] >= 0
        /\ f.words[2] = Sum(c)
        /\ f.flen = DataStart(f) + itemsize * Sum(c)
        /\ Len(recs[path]) = Sum(c)

\* the records of tree number t (0-based) that the file at path holds, in
\* file order
TreeRecs(path, t) ==
    LET c == CountsOnDisk(path)
    IN  SubSeq(recs[path], SumTo(c, t) + 1, Min(SumTo(c, t + 1), Len(recs[path])))

\* the trees of the catalog at path
TreesOf(path) == 0..(Len(CountsOnDisk(path)) - 1)

\* the elements of the sequence s
Range(s) == {s[i] : i \in 1..Len(s)}

\* the fields excluded from the comparison: those both readers list
Excluded == Range(rd[1].ignored_fields) \cap Range(rd[2].ignored_fields)

\* the two catalogs have the same header and as many records
SameShape ==
    disk[1] = disk[2] /\ Len(recs[1]) = Len(recs[2])

\* the places <<i, fld>> where record i of the two catalogs differs in fld
Differences ==
    {x \in (1..Len(recs[1])) \X VarFields : recs[1][x[1]][x[2]] # recs[2][x[1]][x[2]]}

\* no field of either catalog is NaN
NoNaN ==
    \A path \in DOMAIN recs : \A i \in 1..Len(recs[path]) :
        \A fld \in VarFields : recs[path][i][fld] # NaN

\* the tree (0-based) that holds record i of the catalog at path
TreeOfRecord(path, i) ==
    CHOOSE t \in TreesOf(path) :
        SumTo(CountsOnDisk(path), t) < i /\ i <= SumTo(CountsOnDisk(path), t + 1)

\* ------------------------------------------------------------------------
\* C11..C19
\* ------------------------------------------------------------------------

\* C11: comparator reflexivity: comparing any valid catalog with itself, with
\* no excluded fields, always gives Equal.  (Stated as claimed.)
C11_Reflexive ==
    (/\ Compared /\ CompleteCatalog(1)
     /\ disk[2] = disk[1] /\ recs[2] = recs[1]
     /\ Excluded = {}) =>
        cmp.kind = "Equal"

\* C12: given a catalog and a copy in which exactly one non-excluded field of
\* one record is perturbed beyond tolerance, compare_catalogs reports a field
\* mismatch that names exactly that field, that tree index and one record
\* index, and no other field, tree or record.  (Stated as claimed.)
C12_NamesFieldTreeRecord ==
    (/\ Compared /\ CompleteCatalog(1) /\ SameShape /\ NoNaN
     /\ Cardinality(Differences) = 1) =>
        LET x == CHOOSE y \in Differences : TRUE
        IN  (/\ x[2] \notin Excluded
             /\ ~isclose(recs[1][x[1]][x[2]], recs[2][x[1]][x[2]])) =>
                /\ cmp.kind = "field"
                /\ cmp.field = x[2]
                /\ cmp.tree = Some(TreeOfRecord(1, x[1]))
                /\ Len(cmp.rows) = 1

\* the two catalogs differ only in the values of fields in the set flds
DiffersOnlyIn(flds) ==
    /\ SameShape
    /\ \A x \in Differences : x[2] \in flds

\* what compare_catalogs reports, from the state before the call, when
\* the first catalog is compared with itself
SelfReport ==
    compare_catalogs(rd[1], pos[fp(1)], disk[1], recs[1],
                     rd[2], pos[fp(2)], disk[1], recs[1], tie)

\* C13 as claimed: if two catalogs differ only in the values of fields that
\* are in the excluded set, compare_catalogs reports Equal, whichever field
\* of the record layout is excluded.  (Checked on catalogs without NaN.)
C13_ExcludedNeverMatter ==
    (Compared /\ CompleteCatalog(1) /\ NoNaN /\ DiffersOnlyIn(Excluded)) =>
        cmp.kind = "Equal"

\* C13 as amended: if two catalogs differ only in the values of excluded
\* fields other than the sort key SimulationHaloIndex, compare_catalogs
\* reports for the pair exactly what it reports for the first catalog
\* compared with itself: the excluded values change nothing in the report.
C13_ExcludedDoNotInterfere ==
    [][(/\ CompareStep /\ CompleteCatalog(1)
        /\ DiffersOnlyIn(Excluded \ {"SimulationHaloIndex"})) =>
            cmp' = SelfReport]_vars

\* two catalogs that differ in an excluded field of a galaxy, and in nothing
\* else, were compared and found Equal after both trees were read
C13_Witness ==
    /\ Compared /\ CompleteCatalog(1)
    /\ DiffersOnlyIn(Excluded \ {"SimulationHaloIndex"})
    /\ Differences # {}
    /\ cmp.kind = "Equal" /\ Len(cmp.reads) = 4

\* C14: integer and index fields outside the excluded set are compared
\* exactly: if one record's value of such a field differs between the two
\* catalogs by any non-zero amount, however large the values are,
\* compare_catalogs reports a mismatch for that field.  (Stated as claimed.)
C14_IntegersExact ==
    (/\ Compared /\ CompleteCatalog(1) /\ SameShape /\ NoNaN
     /\ Cardinality(Differences) = 1) =>
        LET x == CHOOSE y \in Differences : TRUE
        IN  (x[2] \in IntegerFields \ Excluded) =>
                (cmp.kind = "field" /\ cmp.field = x[2])

\* C15: compare_catalogs performs the structural check first: if the two
\* catalogs' tree counts or total galaxy counts differ it reports the count
\* mismatch at once, without calling read_tree on either catalog, so both
\* stream positions are unchanged.
C15_StructuralCheckFirst ==
    [][(/\ CompareStep
        /\ (rd[1].totntrees # rd[2].totntrees \/ rd[1].totngals # rd[2].totngals)) =>
            (/\ cmp'.kind = IF rd[1].totntrees # rd[2].totntrees
                            THEN "trees" ELSE "galaxies"
             /\ cmp'.reads = <<>>
             /\ pos' = pos)]_vars

\* a total-galaxy mismatch was reported on catalogs that hold records, with
\* both streams still just after the header
C15_Witness ==
    /\ cmp.kind = "galaxies"
    /\ Len(recs[1]) >= 1 /\ Len(recs[2]) >= 1
    /\ pos[fp(1)] = DataStart(disk[1]) /\ pos[fp(2)] = DataStart(disk[2])

\* C16: when tree counts and total galaxy counts agree, if any tree index has
\* different galaxy counts in the two catalogs, compare_catalogs reports a
\* per-tree count mismatch naming the smallest such tree index, and it does
\* so before any tree of either catalog is read.
C16_SmallestTreeCountMismatch ==
    [][(/\ CompareStep
        /\ rd[1].totntrees = rd[2].totntrees /\ rd[1].totngals = rd[2].totngals
        /\ rd[1].ngal_per_tree # None /\ rd[2].ngal_per_tree # None) =>
            LET n1 == Val(rd[1].ngal_per_tree)
                n2 == Val(rd[2].ngal_per_tree)
            IN  \A i \in 1..Min(Len(n1), Len(n2)) :
                    (n1[i] # n2[i] /\ \A j \in 1..(i - 1) : n1[j] = n2[j]) =>
                        (/\ cmp'.kind = "treecount"
                         /\ cmp'.tree = Some(i - 1)
                         /\ cmp'.reads = <<>>
                         /\ pos' = pos)]_vars

\* a per-tree mismatch was reported for tree 0 of two catalogs that also
\* differ in the count of tree 1, with both streams still after the header
C16_Witness ==
    /\ cmp.kind = "treecount" /\ cmp.tree = Some(0)
    /\ Val(rd[1].ngal_per_tree)[2] # Val(rd[2].ngal_per_tree)[2]
    /\ Len(recs[1]) >= 1
    /\ pos[fp(1)] = DataStart(disk[1]) /\ pos[fp(2)] = DataStart(disk[2])

\* s and t hold the same records, each as many times, in any order
IsPermutation(s, t) ==
    /\ Len(s) = Len(t)
    /\ \A x \in Range(s) \cup Range(t) :
          Cardinality({i \in 1..Len(s) : s[i] = x})
              = Cardinality({i \in 1..Len(t) : t[i] = x})

\* every tree of the second catalog holds the records of the same tree of
\* the first one, in some order
SameRecordsPerTree ==
    /\ SameShape
    /\ \A t \in TreesOf(1) : IsPermutation(TreeRecs(1, t), TreeRecs(2, t))

\* no two galaxies of a tree of the catalog at path share a
\* SimulationHaloIndex
DistinctKeys(path) ==
    \A t \in TreesOf(path) :
        LET keys == Column(TreeRecs(path, t), "SimulationHaloIndex")
        IN  \A i, j \in 1..Len(keys) : i # j => keys[i] # keys[j]

\* C17 as claimed: if every tree of catalog B holds the same records as the
\* same tree of catalog A, in any order, the result is Equal, because both
\* batches are sorted by SimulationHaloIndex before fields are compared.
\* (Checked on catalogs without NaN.)
C17_AnyOrderIsEqual ==
    (Compared /\ CompleteCatalog(1) /\ NoNaN /\ SameRecordsPerTree) =>
        cmp.kind = "Equal"

\* C17 as amended: if every tree of catalog B holds the same records as the
\* same tree of catalog A, in any order, and no two records of a tree share
\* a SimulationHaloIndex, compare_catalogs reports for the pair exactly what
\* it reports for catalog A compared with itself.
C17_OrderOfDistinctKeys ==
    [][(/\ CompareStep /\ CompleteCatalog(1)
        /\ SameRecordsPerTree /\ DistinctKeys(1)) =>
            cmp' = SelfReport]_vars

\* two catalogs whose records stand in different orders, with different
\* keys inside every tree, were compared and found Equal
C17_Witness ==
    /\ Compared /\ CompleteCatalog(1)
    /\ SameRecordsPerTree /\ DistinctKeys(1)
    /\ recs[1] # recs[2]
    /\ cmp.kind = "Equal" /\ cmp.reads # <<>>

\* C18: compare_catalogs ends with Equal only if, for every tree index, both
\* catalogs declare the same galaxy count and every non-excluded field of all
\* of that tree's declared records agrees within tolerance between the two
\* key-sorted batches.  (Stated as claimed.)
C18_EqualOnlyIfAllAgree ==
    cmp.kind = "Equal" =>
        \A t \in TreesOf(1) :
            LET n1 == Val(rd[1].ngal_per_tree)[t + 1]
                n2 == Val(rd[2].ngal_per_tree)[t + 1]
                t1 == SortedBatch(TreeRecs(1, t), tie)
                t2 == SortedBatch(TreeRecs(2, t), tie)
            IN  /\ n1 = n2
                /\ Len(t1) = n1 /\ Len(t2) = n2
                /\ \A k \in 1..Len(names) :
                      names[k] \notin Excluded =>
                          allclose(Column(t1, names[k]), Column(t2, names[k]))

\* C19: when a field of a tree fails the comparison, the report lists
\* exactly the record indices (positions in the key-sorted batch) whose two
\* values for that field differ beyond tolerance, every such index and no
\* other, and the reported mismatch count equals the number of listed
\* indices and is at least 1.
C19_ReportListsTheMismatches ==
    cmp.kind = "field" =>
        LET t   == cmp.reads[Len(cmp.reads)][2]
            f1  == Column(SortedBatch(TreeRecs(1, t), tie), cmp.field)
            f2  == Column(SortedBatch(TreeRecs(2, t), tie), cmp.field)
            bad == {i \in 0..(Len(f1) - 1) : ~isclose(f1[i + 1], f2[i + 1])}
        IN  /\ Range(cmp.rows) = bad
            /\ \A i, j \in 1..Len(cmp.rows) : i < j => cmp.rows[i] < cmp.rows[j]
            /\ cmp.numbad = Len(cmp.rows)
            /\ cmp.numbad >= 1
            /\ cmp.total = Len(f1)

\* a field mismatch was reported for a tree of two galaxies of which one
\* agrees and the other, the second of the sorted batch, does not
C19_Witness ==
    /\ cmp.kind = "field" /\ CompleteCatalog(1) /\ CompleteCatalog(2)
    /\ cmp.total = 2 /\ cmp.rows = <<1>> /\ cmp.numbad = 1

\* ------------------------------------------------------------------------
\* C21..C30
\* ------------------------------------------------------------------------
\* the file starts with a whole header: two words and the T counts they
\* announce
HeaderOnDisk(f) ==
    /\ Len(f.words) >= 2
    /\ f.words[1] >= 0
    /\ Len(f.words) >= 2 + f.words[1]

\* the four header attributes of a reader
HeaderFields(st) ==
    <<st.totntrees, st.totngals, st.ngal_per_tree, st.bytes_offset_per_tree>>

\* C21: a read_header call that starts at byte 0 of a file holding a whole
\* header and returns leaves in ngal_per_tree exactly the T counts stored in
\* the file, in order; and a read_tree call on a reader whose header was read
\* before (by read_header or by an earlier read_tree) changes none of
\* totntrees, totngals, ngal_per_tree and bytes_offset_per_tree.
C21_HeaderFieldsKept ==
    [][/\ (/\ ret'.op = "read_header" /\ ret'.exc = "ok" /\ ret'.from = 0
           /\ HeaderOnDisk(disk[rd[ret'.rdr].filename])) =>
              LET f == disk[rd[ret'.rdr].filename]
              IN  Val(rd'[ret'.rdr].ngal_per_tree) = SubSeq(f.words, 3, 2 + f.words[1])
       /\ (/\ ret'.op = "read_tree"
           /\ (hdrCalls[ret'.rdr] >= 1 \/ rd[ret'.rdr].totntrees # None)) =>
              HeaderFields(rd'[ret'.rdr]) = HeaderFields(rd[ret'.rdr])]_vars

\* the header of a catalog whose first two trees have different counts was
\* read, and a later read_tree call returned the records of a tree
C21_Witness ==
    /\ ret.op = "read_tree" /\ ret.val = "tree" /\ ret.hdrRead
    /\ hdrCalls[1] >= 1
    /\ HoldsHeaderOf(rd[1], disk[1])
    /\ Len(Val(rd[1].ngal_per_tree)) >= 2
    /\ Val(rd[1].ngal_per_tree)[1] # Val(rd[1].ngal_per_tree)[2]

\* C22: the record size is the aligned native struct size of the layout:
\* every field, in declared order, starts at a multiple of its scalar width
\* (4 or 8) and as close to the previous field as that allows, the total is
\* rounded up to the next multiple of 8, which makes 232 bytes; and it is the
\* one size by which every read_tree call that returns all the records of a
\* tree advances the stream, whatever the tree and the catalog.
C22_RecordSizeAligned ==
    /\ itemsize = 232
    /\ itemsize % 8 = 0
    /\ itemsize - PackedSize \in 0..7
    /\ FieldsAligned
    /\ (/\ ret.op = "read_tree" /\ ret.val = "tree"
        /\ ret.n = Declared(Caller, ret.arg)) =>
            ret.to - ret.from = ret.n * 232

\* a read_tree call returned the one record of a tree and the stream moved
\* on by one record
C22_Witness ==
    /\ ret.op = "read_tree" /\ ret.val = "tree" /\ ret.n = 1
    /\ ret.n = Declared(Caller, ret.arg)
    /\ ret.to = ret.from + itemsize

\* the records of tree t of the catalog at path, in the order compare_catalogs
\* puts them
SortedTree(path, t) == SortedBatch(TreeRecs(path, t), tie)

\* tree t of the two catalogs, sorted, is not allclose in field fld, which is
\* not excluded
FieldMismatch(t, fld) ==
    /\ fld \notin Excluded
    /\ ~allclose(Column(SortedTree(1, t), fld), Column(SortedTree(2, t), fld))

\* the place of field fld in the record layout
IndexOf(fld) == CHOOSE k \in 1..Len(names) : names[k] = fld

\* the tree numbers of the read_tree calls compare_catalogs made
TreesRead == {cmp.reads[i][2] : i \in 1..Len(cmp.reads)}

\* C23: when compare_catalogs reports a field mismatch, the last tree it read
\* (from both catalogs) mismatches in the reported field and in no field
\* before it in layout order, no non-empty tree before it mismatches in any
\* field, no tree after it was read, and the rows and counts printed are
\* those of the reported field alone.
C23_StopsAtFirstMismatch ==
    (Compared /\ cmp.kind = "field") =>
        /\ Len(cmp.reads) >= 2
        /\ LET n == Len(cmp.reads)
               t == cmp.reads[n][2]
               f1 == Column(SortedTree(1, t), cmp.field)
               f2 == Column(SortedTree(2, t), cmp.field)
           IN  /\ cmp.reads[n - 1] = <<1, t>> /\ cmp.reads[n] = <<2, t>>
               /\ \A u \in TreesRead : u <= t
               /\ FieldMismatch(t, cmp.field)
               /\ \A k \in 1..(IndexOf(cmp.field) - 1) : ~FieldMismatch(t, names[k])
               /\ \A u \in 0..(t - 1) : \A k \in 1..Len(names) :
                     ~FieldMismatch(u, names[k])
               /\ cmp.numbad = NumBad(f1, f2) /\ cmp.total = Len(f1)

\* a field mismatch was reported for tree 0, which mismatches in two fields,
\* and the non-empty tree after it was never read
C23_Witness ==
    /\ Compared /\ cmp.kind = "field"
    /\ cmp.reads = << <<1, 0>>, <<2, 0>> >>
    /\ \E k \in 1..Len(names) : names[k] # cmp.field /\ FieldMismatch(0, names[k])

\* the trees that catalog 1 declares non-empty
NonEmptyTrees ==
    {t \in 0..(Val(rd[1].totntrees) - 1) : Val(rd[1].ngal_per_tree)[t + 1] # 0}

\* C24: a compare_catalogs run that ends with Equal has called read_tree
\* exactly once on each catalog for every tree with a non-zero galaxy count
\* and for no other tree, in ascending order of tree number, catalog 1
\* before catalog 2 for each tree.
C24_ReadsOncePerTreeInOrder ==
    (Compared /\ cmp.kind = "Equal") =>
        /\ \A t \in NonEmptyTrees : \A g \in {1, 2} :
              Cardinality({i \in 1..Len(cmp.reads) : cmp.reads[i] = <<g, t>>}) = 1
        /\ \A i \in 1..Len(cmp.reads) :
              cmp.reads[i][1] \in {1, 2} /\ cmp.reads[i][2] \in NonEmptyTrees
        /\ \A i, j \in 1..Len(cmp.reads) :
              i < j =>
                 \/ cmp.reads[i][2] < cmp.reads[j][2]
                 \/ (/\ cmp.reads[i][2] = cmp.reads[j][2]
                     /\ cmp.reads[i][1] = 1 /\ cmp.reads[j][1] = 2)

\* two catalogs of two non-empty trees each were compared and found Equal
C24_Witness ==
    /\ Compared /\ cmp.kind = "Equal"
    /\ NonEmptyTrees = {0, 1}
    /\ Len(cmp.reads) = 4

\* the names both readers list in ignored_fields
ListedByBoth == Range(rd[1].ignored_fields) \cap Range(rd[2].ignored_fields)

\* the names exactly one reader lists
ListedByOne ==
    (Range(rd[1].ignored_fields) \cup Range(rd[2].ignored_fields)) \ ListedByBoth

\* the values of field fld in tree t of the two catalogs, sorted, are not
\* allclose
ValuesDiffer(t, fld) ==
    ~allclose(Column(SortedTree(1, t), fld), Column(SortedTree(2, t), fld))

\* C25: a field is skipped by compare_catalogs if and only if both readers
\* list it: a run that gets as far as comparing fields ends with Equal exactly
\* when no field outside the names listed by both differs in any non-empty
\* tree, so a field listed by one reader only, or by none, is compared in
\* every non-empty tree; and the field a mismatch report names is never one
\* that both list.
C25_SkippedIffListedByBoth ==
    (Compared /\ cmp.kind \in {"Equal", "field"}) =>
        /\ cmp.kind = "field" => cmp.field \notin ListedByBoth
        /\ cmp.kind = "Equal" <=>
              \A t \in NonEmptyTrees : \A k \in 1..Len(names) :
                  names[k] \notin ListedByBoth => ~ValuesDiffer(t, names[k])

\* the readers were given different lists, the catalogs differ in a field
\* both list and in a field only one lists, and the mismatch reported is the
\* one in the field only one lists
C25_Witness ==
    /\ Compared /\ cmp.kind = "field"
    /\ cmp.field \in ListedByOne
    /\ \E fld \in ListedByBoth : ValuesDiffer(0, fld)

\* what compare_catalogs reports, from the state before the call, when the
\* two readers are passed the other way round
SwappedReport ==
    compare_catalogs(rd[2], pos[fp(2)], disk[2], recs[2],
                     rd[1], pos[fp(1)], disk[1], recs[1], tie)

\* every value of the first catalog and every value of the second in the
\* same field are close in both orders or in neither
ToleranceSymmetric ==
    \A fld \in VarFields :
        \A i \in 1..Len(recs[1]) : \A j \in 1..Len(recs[2]) :
            isclose(recs[1][i][fld], recs[2][j][fld])
                <=> isclose(recs[2][j][fld], recs[1][i][fld])

\* C26 as claimed: compare_catalogs is symmetric in its arguments: comparing
\* (A, B) reports Equal if and only if comparing (B, A) reports Equal.
C26_Symmetric ==
    [][CompareStep => (cmp'.kind = "Equal" <=> SwappedReport.kind = "Equal")]_vars

\* C26 as amended: whenever the values of the two catalogs are close in both
\* orders or in neither, comparing (A, B) and comparing (B, A) report the
\* same thing: the same outcome, field, rows and counts.
C26_SymmetricWhereToleranceIs ==
    [][(CompareStep /\ ToleranceSymmetric) =>
          /\ cmp'.kind = SwappedReport.kind
          /\ cmp'.tree = SwappedReport.tree
          /\ cmp'.field = SwappedReport.field
          /\ cmp'.rows = SwappedReport.rows
          /\ cmp'.numbad = SwappedReport.numbad
          /\ cmp'.total = SwappedReport.total]_vars

\* readers given different ignored_fields lists were compared on catalogs
\* whose values are close in both orders or in neither, and a field
\* mismatch was reported
C26_Witness ==
    /\ Compared /\ cmp.kind = "field"
    /\ ListedByOne # {}
    /\ ToleranceSymmetric
    /\ recs[1] # recs[2]

\* C27: read_header is idempotent: called again on a reader that holds the
\* header of its catalog, directly or after some read_tree calls, it leaves
\* totntrees, totngals, ngal_per_tree and bytes_offset_per_tree as they were.
\* (Stated as claimed.)
C27_ReadHeaderIdempotent ==
    [][(/\ ret'.op = "read_header"
        /\ hdrCalls[ret'.rdr] >= 1
        /\ HoldsHeaderOf(rd[ret'.rdr], disk[rd[ret'.rdr].filename])) =>
            HeaderFields(rd'[ret'.rdr]) = HeaderFields(rd[ret'.rdr])]_vars

\* C28: leaving a `with sageResults(...)` block closes both handles the
\* constructor opened, the descriptor fd and the stream fp, and raises no
\* error of its own, whether the block ended normally or with an exception.
\* (Stated as claimed.)
C28_ExitClosesBothHandles ==
    ret.op = "__exit__" =>
        /\ rd[ret.rdr].fd = "closed"
        /\ rd[ret.rdr].fp = "closed"
        /\ ret.exc = "ok"

\* C29: after read_header on a header with non-negative per-tree counts, no
\* entry of bytes_offset_per_tree is negative or smaller than the header
\* size 8 + 4*T, also when a tree's byte size or the running sum of byte
\* sizes exceeds 2^31 - 1.  (Stated as claimed.)
C29_OffsetsNotBelowHeader ==
    (/\ ret.op = "read_header" /\ ret.exc = "ok" /\ ret.from = 0
     /\ HeaderOnDisk(CallerFile)
     /\ \A i \in 3..Len(CallerFile.words) : CallerFile.words[i] >= 0) =>
        \A i \in 1..Len(Val(Caller.bytes_offset_per_tree)) :
            Val(Caller.bytes_offset_per_tree)[i] >= 8 + 4 * Val(Caller.totntrees)

\* C30: the two passes of read_galaxies agree: when the second pass has
\* ended, the files it copied are exactly the files the first pass counted,
\* the write offset equals the total counted and every slot of the returned
\* array was written from a file; also when a file holds fewer records than
\* its header declares or a read fails.  (Stated as claimed.)
C30_PassesAgree ==
    gal.pc = "done" =>
        /\ gal.copied = gal.counted
        /\ gal.offset = gal.tot_ngals
        /\ gal.filled = 1..gal.tot_ngals

====
